---- MODULE Spec2Model ----
(***************************************************************************)
(* FastPOS (Sistema-POS): order/sale lifecycle, exchange rate and remote   *)
(* synchronisation, modelled from src/App.tsx, src/components/*.tsx,       *)
(* src/lib/supabase.ts and the revisions kept under src/unnamed.           *)
(*                                                                         *)
(* Numbers are JavaScript numbers: a record [k, v] so that NaN, a value    *)
(* the code can compute (parseFloat, Number), is a value of the model.     *)
(* Strings are sequences of one-character strings.  Money and rates are    *)
(* whole numbers (the decimal point is not in the modelled alphabet).      *)
(***************************************************************************)
EXTENDS Integers, Sequences, FiniteSets, TLC

(***************************************************************************)
(* Bounds of the model: clock readings 0..MaxTime, checkouts, refreshes    *)
(* started from the modal, page reloads, product updates                   *)
(***************************************************************************)
MaxTime == 2
MaxCheckouts == 2
MaxRefresh == 1
MaxRestarts == 1
MaxProductUpdates == 1
MaxDbOps == 3
MaxDbSales == 2
MaxExpenseOps == 3
MaxQuantity == 2
MaxCartProducts == 2

(***************************************************************************)
(* JavaScript numbers                                                      *)
(***************************************************************************)
Num(n) == [k |-> "number", v |-> n]
NaN == [k |-> "NaN", v |-> 0]
Null == [k |-> "null", v |-> 0]

\* ToNumber: null counts as 0 in arithmetic and comparisons
ToNumber(x) == IF x.k = "null" THEN Num(0) ELSE x

\* x > 0 in JavaScript: false when x is NaN
GtZero(x) == x.k # "NaN" /\ ToNumber(x).v > 0

\* isNaN(x)
isNaN(x) == x.k = "NaN"

\* a * b
Mul(a, b) == IF isNaN(a) \/ isNaN(b) THEN NaN ELSE Num(ToNumber(a).v * ToNumber(b).v)

\* a + b
Add(a, b) == IF isNaN(a) \/ isNaN(b) THEN NaN ELSE Num(ToNumber(a).v + ToNumber(b).v)

(***************************************************************************)
(* Strings, Number.prototype.toString and parseFloat                       *)
(***************************************************************************)
Digits == <<"0", "1", "2", "3", "4", "5", "6", "7", "8", "9">>

IsDigit(c) == \E i \in 1..10 : Digits[i] = c

DigitVal(c) == (CHOOSE i \in 1..10 : Digits[i] = c) - 1

RECURSIVE NatToString(_)
NatToString(n) ==
  IF n < 10 THEN <<Digits[n + 1]>>
  ELSE NatToString(n \div 10) \o <<Digits[(n % 10) + 1]>>

\* Number.prototype.toString()
toString(x) ==
  IF x.k # "number" THEN <<"N", "a", "N">>
  ELSE IF x.v < 0 THEN <<"-">> \o NatToString(0 - x.v)
  ELSE NatToString(x.v)

\* the longest prefix of s made of digits
RECURSIVE DigitPrefix(_)
DigitPrefix(s) ==
  IF s = <<>> \/ ~IsDigit(Head(s)) THEN <<>>
  ELSE <<Head(s)>> \o DigitPrefix(Tail(s))

RECURSIVE DigitsValue(_, _)
DigitsValue(s, acc) ==
  IF s = <<>> THEN acc ELSE DigitsValue(Tail(s), acc * 10 + DigitVal(Head(s)))

\* s is an optional sign followed by digits only
IsNumeral(s) ==
  LET body == IF s # <<>> /\ (Head(s) = "-" \/ Head(s) = "+") THEN Tail(s) ELSE s
  IN body # <<>> /\ DigitPrefix(body) = body

\* parseFloat(s): optional sign, then the longest run of digits; NaN when
\* there is no digit; whatever follows the digits is ignored
parseFloat(s) ==
  LET neg == s # <<>> /\ Head(s) = "-"
      signed == s # <<>> /\ (Head(s) = "-" \/ Head(s) = "+")
      body == IF signed THEN Tail(s) ELSE s
      ds == DigitPrefix(body)
  IN IF ds = <<>> THEN NaN
     ELSE IF neg THEN Num(0 - DigitsValue(ds, 0))
     ELSE Num(DigitsValue(ds, 0))

(***************************************************************************)
(* Sequences                                                               *)
(***************************************************************************)
\* Array.prototype.map
Map(f(_), q) == [i \in 1..Len(q) |-> f(q[i])]

\* the elements of a sequence
Range(q) == {q[i] : i \in 1..Len(q)}

Min(a, b) == IF a < b THEN a ELSE b

(***************************************************************************)
(* State                                                                   *)
(***************************************************************************)
VARIABLES
  env,            \* configuration: "real" when the Supabase credentials are set
  session,        \* number of page loads so far (0 = first load)
  now,            \* the clock (Date.now())
  exchangeRate,   \* App state: current rate
  isLoadingRate,  \* App state: a refresh is running
  rateReqs,       \* fetchBCVRate calls of this page load awaiting their response
  refreshes,      \* refreshes started from the modal so far
  storedRate,     \* localStorage['fastpos_exchange_rate']: [has, val]
  products,       \* App state: catalog
  salesHistory,   \* App state: sales ledger, newest first
  expenses,       \* App state: expense ledger
  isSyncing,      \* App state: fetchAllData is running
  storedProducts, \* localStorage['fastpos_products']
  storedSales,    \* localStorage['fastpos_sales']
  storedExpenses, \* localStorage['fastpos_expenses']
  remoteProducts, \* remote table products
  remoteSales,    \* remote table sales, in insertion order
  remoteExpenses, \* remote table expenses
  nextRemoteId,   \* next id the remote store assigns
  saleReqs,       \* inserts into sales awaiting their response
  productReqs,    \* updates of products awaiting their response
  fetchReqs,      \* fetchAllData calls of this page load, by the select awaited
  dbSales,        \* remote table sales as written through the db data layer
  dbOps,          \* calls of the db data layer so far
  checkouts,      \* checkouts so far
  productUpdates, \* product updates so far
  startDate,      \* SalesStatsView state: lower bound of the report, "" or a day
  endDate,        \* SalesStatsView state: upper bound of the report
  cart,           \* PosView state: the cart
  expenseReqs,    \* inserts into expenses awaiting their response
  deleteReqs,     \* deletes of expenses awaiting their response
  expenseOps,     \* expense submissions and deletions so far
  deletedExpenses,\* the expenses handleDeleteExpense was called for
  productAddReqs, \* inserts into products awaiting their response
  productDeleteReqs, \* deletes of products awaiting their response
  pendingLoad,    \* what loadOfflineData has handed to setState, until the re-render
  backupFile,     \* the backup document last downloaded by exportData
  importResult,   \* the file last given to importData and how its promise settled
  last            \* the last step: operation, outcome, argument, and whether it
                  \* called console.error

rateVars == <<exchangeRate, isLoadingRate, rateReqs, refreshes, storedRate>>

localVars == <<products, salesHistory, expenses, isSyncing>>

storeVars == <<storedProducts, storedSales, storedExpenses>>

remoteVars == <<remoteProducts, remoteSales, remoteExpenses, nextRemoteId>>

reqVars == <<saleReqs, productReqs, fetchReqs>>

countVars == <<checkouts, productUpdates>>

dbVars == <<dbSales, dbOps>>

viewVars == <<startDate, endDate, cart>>

expVars == <<expenseReqs, deleteReqs, expenseOps, deletedExpenses>>

backupVars == <<backupFile, importResult>>

prodVars == <<productAddReqs, productDeleteReqs>>

loadVars == <<pendingLoad>>

\* the views, the expense requests and the backup
auxVars == <<viewVars, expVars, backupVars, prodVars, loadVars>>

vars == <<env, session, now, rateVars, localVars, storeVars, remoteVars, reqVars,
          countVars, dbVars, auxVars, last>>

Envs == {"absent", "real"}

\* App.tsx isOnline
isOnline == env # "absent"

\* lib/supabase.ts isSupabaseConfigured
isSupabaseConfigured == env = "real"

Op(op, outcome, arg) == [op |-> op, outcome |-> outcome, arg |-> arg, logged |-> FALSE]

\* a step whose handler called console.error
Logged(op, outcome, arg) == [op |-> op, outcome |-> outcome, arg |-> arg, logged |-> TRUE]

(***************************************************************************)
(* Dates: a date is a clock reading; its calendar day is date.split('T')[0]*)
(***************************************************************************)
TicksPerDay == 2

Day(date) == date \div TicksPerDay

\* the value of a date input: empty, or a day
NoDate == [has |-> FALSE, day |-> 0]
OnDay(d) == [has |-> TRUE, day |-> d]

\* new Date().toISOString().split('T')[0]
Today(t) == OnDay(Day(t))

\* exportData has not been called
NoFile == [kind |-> "none"]

\* no page load awaits its re-render
NoLoad == [has |-> FALSE, products |-> <<>>, sales |-> <<>>, expenses |-> <<>>]

\* importData has not been called
NoImport == [state |-> "none", file |-> NoFile]

(***************************************************************************)
(* localStorage                                                            *)
(***************************************************************************)
NoItem == [has |-> FALSE, val |-> <<>>]
Item(s) == [has |-> TRUE, val |-> s]

\* a stored string is truthy unless it is null or empty
TruthyItem(item) == item.has /\ item.val # <<>>

\* JSON.parse(JSON.stringify(x)) of a number: NaN comes back as null
JsonValue(x) == IF isNaN(x) THEN Null ELSE x

JsonSale(s) == [s EXCEPT !.total = JsonValue(@), !.exchangeRate = JsonValue(@)]

\* saveOfflineData writing when online instead of when offline
saveOfflineDataWhenOnline(item, data) == IF isOnline THEN Item(data) ELSE item

\* saveOfflineData: the item after the watcher ran
saveOfflineData(item, data) == IF ~isOnline THEN Item(data) ELSE item

DefaultRate == 45

\* useState initialiser of exchangeRate
InitialRate(savedRate) ==
  IF TruthyItem(savedRate) THEN parseFloat(savedRate.val) ELSE Num(DefaultRate)

\* the effect that stores the rate after every render that changed it
PersistRate(rate) == Item(toString(rate))

(***************************************************************************)
(* The response of the exchange-rate source                                *)
(***************************************************************************)
\* JSON values of the fields promedio and price: absent, a number, a string
Absent == [t |-> "undefined", n |-> 0, s |-> <<>>]
JNum(n) == [t |-> "number", n |-> n, s |-> <<>>]
JStr(s) == [t |-> "string", n |-> 0, s |-> s]

FieldValues == {Absent, JNum(0), JNum(-5), JNum(52), JStr(<<"a">>), JStr(<<"5", "2">>)}

\* what fetch(BCV_API_URL) can deliver
RateResponses ==
  {[kind |-> k, promedio |-> Absent, price |-> Absent] : k \in {"network", "notOk", "badJson"}}
  \cup {[kind |-> "ok", promedio |-> a, price |-> b] : a \in FieldValues, b \in FieldValues}

\* further JSON values: null, an array, an object
JNull == [t |-> "null", n |-> 0, s |-> <<>>]
JArr(a) == [t |-> "array", n |-> 0, s |-> a]
JObj == [t |-> "object", n |-> 0, s |-> <<>>]

\* truthiness of a JSON value
Truthy(x) ==
  CASE x.t = "undefined" -> FALSE
    [] x.t = "null" -> FALSE
    [] x.t = "number" -> x.n # 0
    [] x.t = "string" -> x.s # <<>>
    [] x.t = "array" -> TRUE
    [] x.t = "object" -> TRUE

\* Number(x) for a JSON number or string: a string that is not wholly a
\* numeral gives NaN
Number(x) ==
  CASE x.t = "undefined" -> NaN
    [] x.t = "number" -> Num(x.n)
    [] x.t = "string" ->
         IF x.s = <<>> THEN Num(0)
         ELSE IF IsNumeral(x.s) THEN parseFloat(x.s)
         ELSE NaN

\* fetchBCVRate: the rate read from a parsed response
ParsedRate(data) ==
  IF Truthy(data.promedio) THEN Number(data.promedio)
  ELSE IF Truthy(data.price) THEN Number(data.price)
  ELSE Num(0)

\* fetchBCVRate: does the try block throw
RefreshThrows(resp) == resp.kind # "ok"

\* RateAfterRefresh without the test rate > 0
RateAfterRefreshUnchecked(rate, resp) ==
  IF RefreshThrows(resp) THEN rate ELSE ParsedRate(resp)

\* RateAfterRefresh falling back to the default rate when the fetch throws
RateAfterRefreshReset(rate, resp) ==
  IF RefreshThrows(resp) THEN Num(DefaultRate)
  ELSE IF GtZero(ParsedRate(resp)) THEN ParsedRate(resp)
  ELSE rate

\* fetchBCVRate: the rate after the response
RateAfterRefresh(rate, resp) ==
  IF RefreshThrows(resp) THEN rate
  ELSE IF GtZero(ParsedRate(resp)) THEN ParsedRate(resp)
  ELSE rate

\* a refresh fails when it throws or yields no strictly positive rate
RefreshFailed(resp) == RefreshThrows(resp) \/ ~GtZero(ParsedRate(resp))

\* why a refresh failed: the kind of the error thrown, or "invalid" for a
\* response without a strictly positive rate
FailureKind(resp) ==
  IF RefreshThrows(resp) THEN resp.kind
  ELSE IF ~GtZero(ParsedRate(resp)) THEN "invalid"
  ELSE "none"

(***************************************************************************)
(* Catalog and cart                                                        *)
(***************************************************************************)
\* PRODUCTS, the fallback catalog (prices in cents)
PRODUCTS == <<[id |-> 1, price |-> 650], [id |-> 2, price |-> 500], [id |-> 3, price |-> 250]>>

CartItem(p, q) == [id |-> p.id, price |-> p.price, quantity |-> q]

RECURSIVE SumItems(_)
SumItems(items) ==
  IF items = <<>> THEN 0
  ELSE Head(items).price * Head(items).quantity + SumItems(Tail(items))

\* PosView totals.itemCount
RECURSIVE ItemCount(_)
ItemCount(items) ==
  IF items = <<>> THEN 0 ELSE Head(items).quantity + ItemCount(Tail(items))

\* totals.total taken from itemCount
totalsItemCount(items) == Num(ItemCount(items))

\* PosView totals.total
totals(items) == Num(SumItems(items))

PaymentMethods == {"cash", "card", "mobile", "zelle"}

\* the checkouts confirmed in the model: the first product twice paid in cash
\* (USD), the second and third product paid by mobile payment (local currency)
CheckoutInputs(catalog) ==
  (IF Len(catalog) >= 1
   THEN {[cart |-> <<CartItem(catalog[1], 2)>>, paymentMethod |-> "cash"]} ELSE {})
  \cup (IF Len(catalog) >= 3
        THEN {[cart |-> <<CartItem(catalog[2], 1), CartItem(catalog[3], 1)>>,
               paymentMethod |-> "mobile"]} ELSE {})

DeliveryTypes == {"kitchen", "direct"}

\* PosView (delivery-type revision) confirmPayment: the status handed to onCheckout
confirmPaymentStatus(deliveryType) ==
  IF deliveryType = "direct" THEN "completed" ELSE "pending"

(***************************************************************************)
(* Sales                                                                   *)
(***************************************************************************)
TempId(t) == [src |-> "tmp", n |-> t]
DbId(n) == [src |-> "db", n |-> n]

\* handleCheckout newSaleTemp: customerName and status are not parameters of
\* handleCheckout and no orderNumber is computed.  key is the serial number of
\* the checkout, kept to follow one sale through its changes of id
newSaleTemp(items, total, paymentMethod, customerName, status, t, rate, key) ==
  [id |-> TempId(t), date |-> t, items |-> items, total |-> total,
   paymentMethod |-> paymentMethod, exchangeRate |-> rate, key |-> key]

\* handleCheckout: the row sent to the remote table
saleRow(items, total, paymentMethod, rate, t, key) ==
  [items |-> items, total |-> total, payment_method |-> paymentMethod,
   exchange_rate |-> rate, date |-> t, key |-> key]

\* the remote store completes an inserted row with an id
storedRow(row, n) ==
  [id |-> DbId(n), items |-> row.items, total |-> row.total,
   payment_method |-> row.payment_method, exchange_rate |-> row.exchange_rate,
   date |-> row.date, key |-> row.key]

\* handleCheckout, remote insert success: the sale with the temporary id takes
\* the id and date of the stored row
confirmSale(s, tempId, data) ==
  IF s.id = tempId THEN [s EXCEPT !.id = data.id, !.date = data.date] ELSE s

\* mappedSale with the columns total and exchange_rate mixed up
mappedSaleMixedColumns(s) ==
  [id |-> s.id, date |-> s.date, items |-> s.items, total |-> s.exchange_rate,
   paymentMethod |-> s.payment_method, exchangeRate |-> s.total, key |-> s.key]

\* fetchAllData mappedSales
mappedSale(s) ==
  [id |-> s.id, date |-> s.date, items |-> s.items, total |-> s.total,
   paymentMethod |-> s.payment_method, exchangeRate |-> s.exchange_rate, key |-> s.key]

FetchLimit == 200

\* select('*').order('date', {ascending: false}).limit(200): every order of
\* the rows that is descending by date, cut at the limit
SelectByDateDesc(rows) ==
  LET n == Len(rows)
      perms == {f \in [1..n -> 1..n] : \A i, j \in 1..n : i # j => f[i] # f[j]}
      sorted == {f \in perms : \A i, j \in 1..n : i < j => rows[f[i]].date >= rows[f[j]].date}
  IN {[i \in 1..Min(n, FetchLimit) |-> rows[f[i]]] : f \in sorted}

(***************************************************************************)
(* Start-up: the first render and its effects                              *)
(***************************************************************************)
\* loadOfflineData
\* (a stored ledger is JSON text, a string that is never empty: '[]' is truthy)
loadedProducts(item) == IF item.has THEN item.val ELSE PRODUCTS
loadedList(item) == IF item.has THEN item.val ELSE <<>>

NoFetch == [products |-> 0, sales |-> 0, expenses |-> 0]

\* in-memory state after a page load with the given localStorage
StartUp(savedRate, savedProducts, savedSales, savedExpenses) ==
  /\ exchangeRate' = InitialRate(savedRate)
  /\ storedRate' = PersistRate(InitialRate(savedRate))
  /\ isLoadingRate' = TRUE
  /\ rateReqs' = 1
  /\ IF isOnline
     THEN /\ products' = <<>>
          /\ salesHistory' = <<>>
          /\ expenses' = <<>>
          /\ isSyncing' = TRUE
          /\ fetchReqs' = [NoFetch EXCEPT !.products = 1]
          /\ storedProducts' = savedProducts
          /\ storedSales' = savedSales
          /\ storedExpenses' = savedExpenses
     ELSE /\ products' = loadedProducts(savedProducts)
          /\ salesHistory' = loadedList(savedSales)
          /\ expenses' = loadedList(savedExpenses)
          /\ isSyncing' = FALSE
          /\ fetchReqs' = NoFetch
          /\ storedProducts' = Item(loadedProducts(savedProducts))
          /\ storedSales' = Item(Map(JsonSale, loadedList(savedSales)))
          /\ storedExpenses' = Item(loadedList(savedExpenses))

Init ==
  /\ env \in Envs
  /\ session = 0
  /\ now = 0
  /\ exchangeRate = InitialRate(NoItem)
  /\ storedRate = PersistRate(InitialRate(NoItem))
  /\ isLoadingRate = TRUE
  /\ rateReqs = 1
  /\ refreshes = 0
  /\ products = IF isOnline THEN <<>> ELSE PRODUCTS
  /\ salesHistory = <<>>
  /\ expenses = <<>>
  /\ isSyncing = isOnline
  /\ storedProducts = IF isOnline THEN NoItem ELSE Item(PRODUCTS)
  /\ storedSales = IF isOnline THEN NoItem ELSE Item(<<>>)
  /\ storedExpenses = IF isOnline THEN NoItem ELSE Item(<<>>)
  /\ remoteProducts = PRODUCTS
  /\ remoteSales = <<>>
  /\ remoteExpenses = <<>>
  /\ nextRemoteId = 1
  /\ saleReqs = {}
  /\ productReqs = {}
  /\ fetchReqs = IF isOnline THEN [NoFetch EXCEPT !.products = 1] ELSE NoFetch
  /\ dbSales = <<>>
  /\ dbOps = 0
  /\ checkouts = 0
  /\ productUpdates = 0
  /\ startDate = Today(0)
  /\ endDate = Today(0)
  /\ cart = <<>>
  /\ expenseReqs = {}
  /\ deleteReqs = {}
  /\ productAddReqs = {}
  /\ productDeleteReqs = {}
  /\ expenseOps = 0
  /\ deletedExpenses = {}
  /\ pendingLoad = NoLoad
  /\ backupFile = NoFile
  /\ importResult = NoImport
  /\ last = Op("init", "none", <<>>)

\* the page is reloaded: in-memory state is rebuilt from localStorage; requests
\* already sent still reach the remote store, their callbacks are gone
Restart ==
  /\ session < MaxRestarts
  /\ session' = session + 1
  /\ StartUp(storedRate, storedProducts, storedSales, storedExpenses)
  /\ startDate' = Today(now)
  /\ endDate' = Today(now)
  /\ cart' = <<>>
  /\ last' = Op("restart", "none", <<>>)
  /\ UNCHANGED <<expVars, backupVars, prodVars, loadVars, env, dbVars, now, refreshes, remoteVars, saleReqs, productReqs, countVars>>

\* Restart in two steps.  PageLoad is the first render and its effects: the
\* state is the initial one, loadOfflineData has read localStorage and called
\* setState, and the watchers, which run after it with the initial state,
\* have written that state
PageLoad ==
  /\ session < MaxRestarts
  /\ session' = session + 1
  /\ exchangeRate' = InitialRate(storedRate)
  /\ storedRate' = PersistRate(InitialRate(storedRate))
  /\ isLoadingRate' = TRUE
  /\ rateReqs' = 1
  /\ products' = <<>>
  /\ salesHistory' = <<>>
  /\ expenses' = <<>>
  /\ IF isOnline
     THEN /\ isSyncing' = TRUE
          /\ fetchReqs' = [NoFetch EXCEPT !.products = 1]
          /\ pendingLoad' = NoLoad
          /\ UNCHANGED storeVars
     ELSE /\ isSyncing' = FALSE
          /\ fetchReqs' = NoFetch
          /\ pendingLoad' = [has |-> TRUE,
                             products |-> loadedProducts(storedProducts),
                             sales |-> loadedList(storedSales),
                             expenses |-> loadedList(storedExpenses)]
          /\ storedProducts' = saveOfflineData(storedProducts, <<>>)
          /\ storedSales' = saveOfflineData(storedSales, <<>>)
          /\ storedExpenses' = saveOfflineData(storedExpenses, <<>>)
  /\ startDate' = Today(now)
  /\ endDate' = Today(now)
  /\ cart' = <<>>
  /\ last' = Op("pageLoad", "none", <<>>)
  /\ UNCHANGED <<expVars, backupVars, prodVars, env, dbVars, now, refreshes, remoteVars,
                 saleReqs, productReqs, countVars>>

\* the re-render with the state loadOfflineData has set, and the watchers
\* after it
Render ==
  /\ pendingLoad.has
  /\ products' = pendingLoad.products
  /\ salesHistory' = pendingLoad.sales
  /\ expenses' = pendingLoad.expenses
  /\ storedProducts' = saveOfflineData(storedProducts, pendingLoad.products)
  /\ storedSales' = saveOfflineData(storedSales, Map(JsonSale, pendingLoad.sales))
  /\ storedExpenses' = saveOfflineData(storedExpenses, pendingLoad.expenses)
  /\ pendingLoad' = NoLoad
  /\ last' = Op("render", "none", <<>>)
  /\ UNCHANGED <<viewVars, expVars, backupVars, prodVars, env, dbVars, session, now, rateVars,
                 isSyncing, remoteVars, reqVars, countVars>>

\* time passes
Tick ==
  /\ now < MaxTime
  /\ now' = now + 1
  /\ last' = Op("tick", "none", <<>>)
  /\ UNCHANGED <<auxVars, env, dbVars, session, rateVars, localVars, storeVars, remoteVars, reqVars,
                 countVars>>

(***************************************************************************)
(* Exchange rate                                                           *)
(***************************************************************************)
\* the refresh button of ExchangeRateModal (disabled while loading)
RefreshClick ==
  /\ ~isLoadingRate
  /\ refreshes < MaxRefresh
  /\ refreshes' = refreshes + 1
  /\ isLoadingRate' = TRUE
  /\ rateReqs' = rateReqs + 1
  /\ last' = Op("refreshStart", "none", <<>>)
  /\ UNCHANGED <<auxVars, env, dbVars, session, now, exchangeRate, storedRate, localVars, storeVars,
                 remoteVars, reqVars, countVars>>

\* fetchBCVRate after its await: try / catch / finally
RefreshResponse ==
  /\ rateReqs > 0
  /\ \E resp \in RateResponses :
       /\ exchangeRate' = RateAfterRefresh(exchangeRate, resp)
       /\ storedRate' = PersistRate(RateAfterRefresh(exchangeRate, resp))
       /\ last' = IF RefreshThrows(resp)
                  THEN Logged("refreshResponse", "failed", FailureKind(resp))
                  ELSE Op("refreshResponse", IF RefreshFailed(resp) THEN "failed" ELSE "ok",
                          FailureKind(resp))
  /\ isLoadingRate' = FALSE
  /\ rateReqs' = rateReqs - 1
  /\ UNCHANGED <<auxVars, env, dbVars, session, now, refreshes, localVars, storeVars, remoteVars, reqVars,
                 countVars>>

\* what can be typed in the rate field of the modal
ManualInputs ==
  {<<"5", "0">>, <<"0">>, <<"-", "5">>, <<"x">>, <<>>, <<"9", "x">>}

\* ManualAccepted with val >= 0 in place of val > 0
ManualAcceptedNonNegative(manualRate) ==
  (~isNaN(parseFloat(manualRate))) /\ parseFloat(manualRate).v >= 0

\* handleManualSubmit: is the typed value passed to onUpdate
ManualAccepted(manualRate) ==
  (~isNaN(parseFloat(manualRate))) /\ GtZero(parseFloat(manualRate))

\* handleUpdateExchangeRate doing nothing while a refresh is running
handleUpdateExchangeRateWhenIdle(rate, newRate) == IF isLoadingRate THEN rate ELSE newRate

\* handleUpdateExchangeRate
handleUpdateExchangeRate(rate, newRate) == newRate

\* handleManualSubmit, with the onUpdate it calls
handleManualSubmit ==
  /\ \E manualRate \in ManualInputs :
       LET val == parseFloat(manualRate)
           newRate == IF ManualAccepted(manualRate)
                      THEN handleUpdateExchangeRate(exchangeRate, val)
                      ELSE exchangeRate
       IN /\ exchangeRate' = newRate
          /\ storedRate' = PersistRate(newRate)
          /\ last' = Op("manualSubmit",
                        IF ManualAccepted(manualRate) THEN "ok" ELSE "failed", manualRate)
  /\ UNCHANGED <<auxVars, env, dbVars, session, now, isLoadingRate, rateReqs, refreshes, localVars,
                 storeVars, remoteVars, reqVars, countVars>>

(***************************************************************************)
(* Checkout                                                                *)
(***************************************************************************)
\* confirmPayment with these items in the cart, and the handleCheckout it
\* calls, up to the await
Checkout(items, paymentMethod, deliveryType) ==
  LET key == checkouts + 1
      sale == newSaleTemp(items, totals(items), paymentMethod, <<>>,
                          confirmPaymentStatus(deliveryType), now, exchangeRate, key)
      row == saleRow(items, totals(items), paymentMethod, exchangeRate, now, key)
  IN /\ salesHistory' = <<sale>> \o salesHistory
     /\ storedSales' = saveOfflineData(storedSales, Map(JsonSale, <<sale>> \o salesHistory))
     /\ saleReqs' = IF isOnline
                    THEN saleReqs \cup {[tempId |-> sale.id, row |-> row, session |-> session]}
                    ELSE saleReqs
     /\ last' = Op("checkout", deliveryType, key)
     /\ checkouts' = checkouts + 1

\* a checkout of one of the carts of CheckoutInputs
handleCheckout ==
  /\ checkouts < MaxCheckouts
  /\ \E in \in CheckoutInputs(products), deliveryType \in DeliveryTypes :
       Checkout(in.cart, in.paymentMethod, deliveryType)
  /\ UNCHANGED <<auxVars, env, dbVars, session, now, rateVars, products, expenses, isSyncing, storedProducts,
                 storedExpenses, remoteVars, productReqs, fetchReqs, productUpdates>>

\* the remote insert succeeded: handleCheckout after its await, no error
SaleInsertOk ==
  /\ \E req \in saleReqs :
       LET data == storedRow(req.row, nextRemoteId)
       IN /\ remoteSales' = Append(remoteSales, data)
          /\ nextRemoteId' = nextRemoteId + 1
          /\ salesHistory' = IF req.session = session
                             THEN [i \in 1..Len(salesHistory) |->
                                     confirmSale(salesHistory[i], req.tempId, data)]
                             ELSE salesHistory
          /\ saleReqs' = saleReqs \ {req}
          /\ last' = Op("saleInsert", "ok", req.row.key)
  /\ UNCHANGED <<auxVars, env, dbVars, session, now, rateVars, products, expenses, isSyncing, storeVars,
                 remoteProducts, remoteExpenses, productReqs, fetchReqs, countVars>>

\* the remote insert failed: handleCheckout's catch keeps the sale in state
SaleInsertFail ==
  /\ \E req \in saleReqs :
       /\ saleReqs' = saleReqs \ {req}
       /\ last' = IF req.session = session
                  THEN Logged("saleInsert", "failed", req.row.key)
                  ELSE Op("saleInsert", "failed", req.row.key)
  /\ UNCHANGED <<auxVars, env, dbVars, session, now, rateVars, localVars, storeVars, remoteVars,
                 productReqs, fetchReqs, countVars>>

(***************************************************************************)
(* PosView: the cart                                                       *)
(***************************************************************************)
\* a lookup that never finds the product
InCartNever(id) == FALSE

InCart(id) == \E i \in 1..Len(cart) : cart[i].id = id

\* item.id === id ? { ...item, quantity: item.quantity + n } : item
withQuantity(item, id, n) ==
  IF item.id = id THEN [item EXCEPT !.quantity = @ + n] ELSE item

\* handleAddToCart
handleAddToCart ==
  /\ \E i \in 1..Min(MaxCartProducts, Len(products)) :
       LET product == products[i]
       IN /\ \A j \in 1..Len(cart) :
               cart[j].id = product.id => cart[j].quantity < MaxQuantity
          /\ cart' = IF InCart(product.id)
                     THEN [j \in 1..Len(cart) |-> withQuantity(cart[j], product.id, 1)]
                     ELSE Append(cart, CartItem(product, 1))
          /\ last' = Op("addToCart", "none", product.id)
  /\ UNCHANGED <<startDate, endDate, expVars, backupVars, prodVars, loadVars, env, session, now, rateVars,
                 localVars, storeVars, remoteVars, reqVars, countVars, dbVars>>

\* handleIncrement
handleIncrement ==
  /\ \E i \in 1..Len(cart) :
       /\ cart[i].quantity < MaxQuantity
       /\ cart' = [j \in 1..Len(cart) |-> withQuantity(cart[j], cart[i].id, 1)]
       /\ last' = Op("increment", "none", cart[i].id)
  /\ UNCHANGED <<startDate, endDate, expVars, backupVars, prodVars, loadVars, env, session, now, rateVars,
                 localVars, storeVars, remoteVars, reqVars, countVars, dbVars>>

\* handleDecrement: an item whose quantity reaches 0 is removed
handleDecrement ==
  /\ \E i \in 1..Len(cart) :
       /\ cart' = SelectSeq([j \in 1..Len(cart) |-> withQuantity(cart[j], cart[i].id, -1)],
                            LAMBDA item : item.quantity > 0)
       /\ last' = Op("decrement", "none", cart[i].id)
  /\ UNCHANGED <<startDate, endDate, expVars, backupVars, prodVars, loadVars, env, session, now, rateVars,
                 localVars, storeVars, remoteVars, reqVars, countVars, dbVars>>

\* handleRemove
handleRemove ==
  /\ \E i \in 1..Len(cart) :
       /\ cart' = SelectSeq(cart, LAMBDA item : item.id # cart[i].id)
       /\ last' = Op("remove", "none", cart[i].id)
  /\ UNCHANGED <<startDate, endDate, expVars, backupVars, prodVars, loadVars, env, session, now, rateVars,
                 localVars, storeVars, remoteVars, reqVars, countVars, dbVars>>

\* openCheckoutModal (nothing happens with an empty cart), the choice of the
\* method and confirmPayment, which hands the cart to handleCheckout and
\* empties it
confirmPayment ==
  /\ cart # <<>>
  /\ checkouts < MaxCheckouts
  /\ \E selectedMethod \in PaymentMethods, deliveryType \in DeliveryTypes :
       Checkout(cart, selectedMethod, deliveryType)
  /\ cart' = <<>>
  /\ UNCHANGED <<startDate, endDate, expVars, backupVars, prodVars, loadVars, env, dbVars, session, now, rateVars,
                 products, expenses, isSyncing, storedProducts, storedExpenses, remoteVars,
                 productReqs, fetchReqs, productUpdates>>

(***************************************************************************)
(* Products                                                                *)
(***************************************************************************)
PriceStep == 100

replaceProduct(p, updatedProduct) == IF p.id = updatedProduct.id THEN updatedProduct ELSE p

\* handleUpdateProduct up to the await
handleUpdateProduct ==
  /\ productUpdates < MaxProductUpdates
  /\ \E i \in 1..Min(1, Len(products)) :
       LET updatedProduct == [products[i] EXCEPT !.price = @ + PriceStep]
           updated == [j \in 1..Len(products) |-> replaceProduct(products[j], updatedProduct)]
       IN /\ products' = updated
          /\ storedProducts' = saveOfflineData(storedProducts, updated)
          /\ productReqs' = IF isOnline
                            THEN productReqs \cup {[product |-> updatedProduct, session |-> session]}
                            ELSE productReqs
          /\ last' = Op("updateProduct", "none", updatedProduct.id)
  /\ productUpdates' = productUpdates + 1
  /\ UNCHANGED <<auxVars, env, dbVars, session, now, rateVars, salesHistory, expenses, isSyncing,
                 storedSales, storedExpenses, remoteVars, saleReqs, fetchReqs, checkouts>>

\* the remote update succeeded
ProductUpdateOk ==
  /\ \E req \in productReqs :
       /\ remoteProducts' = [j \in 1..Len(remoteProducts) |->
                               replaceProduct(remoteProducts[j], req.product)]
       /\ productReqs' = productReqs \ {req}
       /\ last' = Op("productUpdate", "ok", req.product.id)
  /\ UNCHANGED <<auxVars, env, dbVars, session, now, rateVars, localVars, storeVars, remoteSales,
                 remoteExpenses, nextRemoteId, saleReqs, fetchReqs, countVars>>

\* the remote update failed: the catch calls fetchAllData to revert
ProductUpdateFail ==
  /\ \E req \in productReqs :
       /\ productReqs' = productReqs \ {req}
       /\ IF req.session = session
          THEN /\ isSyncing' = TRUE
               /\ fetchReqs' = [fetchReqs EXCEPT !.products = @ + 1]
               /\ last' = Logged("productUpdate", "failed", req.product.id)
          ELSE /\ UNCHANGED <<isSyncing, fetchReqs>>
               /\ last' = Op("productUpdate", "failed", req.product.id)
  /\ UNCHANGED <<auxVars, env, dbVars, session, now, rateVars, products, salesHistory, expenses, storeVars,
                 remoteVars, saleReqs, countVars>>

\* the ids of products added at run time: temporary and stored
ProductTempId(t) == 100 + t
ProductDbId(n) == 200 + n

\* handleAddProduct up to the await
handleAddProduct ==
  /\ productUpdates < MaxProductUpdates
  /\ productUpdates' = productUpdates + 1
  /\ LET tempProduct == [id |-> ProductTempId(now), price |-> PriceStep]
     IN /\ products' = Append(products, tempProduct)
        /\ storedProducts' = saveOfflineData(storedProducts, Append(products, tempProduct))
        /\ productAddReqs' = IF isOnline
                             THEN productAddReqs \cup
                                    {[tempId |-> tempProduct.id, row |-> tempProduct,
                                      session |-> session]}
                             ELSE productAddReqs
        /\ last' = Op("addProduct", "none", tempProduct.id)
  /\ UNCHANGED <<viewVars, expVars, backupVars, loadVars, productDeleteReqs, env, dbVars, session, now,
                 rateVars, salesHistory, expenses, isSyncing, storedSales, storedExpenses,
                 remoteVars, reqVars, checkouts>>

\* the remote insert succeeded: the temporary product is replaced by the
\* stored row
ProductInsertOk ==
  /\ \E req \in productAddReqs :
       LET data == [req.row EXCEPT !.id = ProductDbId(nextRemoteId)]
       IN /\ remoteProducts' = Append(remoteProducts, data)
          /\ nextRemoteId' = nextRemoteId + 1
          /\ products' = IF req.session = session
                         THEN [j \in 1..Len(products) |->
                                 IF products[j].id = req.tempId THEN data ELSE products[j]]
                         ELSE products
          /\ productAddReqs' = productAddReqs \ {req}
          /\ last' = Op("productInsert", "ok", req.tempId)
  /\ UNCHANGED <<viewVars, expVars, backupVars, loadVars, productDeleteReqs, env, dbVars, session, now,
                 rateVars, salesHistory, expenses, isSyncing, storeVars, remoteSales,
                 remoteExpenses, reqVars, countVars>>

\* the remote insert failed: the catch removes the temporary product
ProductInsertFail ==
  /\ \E req \in productAddReqs :
       /\ productAddReqs' = productAddReqs \ {req}
       /\ IF req.session = session
          THEN /\ products' = SelectSeq(products, LAMBDA p : p.id # req.tempId)
               /\ last' = Logged("productInsert", "failed", req.tempId)
          ELSE /\ products' = products
               /\ last' = Op("productInsert", "failed", req.tempId)
  /\ UNCHANGED <<viewVars, expVars, backupVars, loadVars, productDeleteReqs, env, dbVars, session, now,
                 rateVars, salesHistory, expenses, isSyncing, storeVars, remoteVars, reqVars,
                 countVars>>

\* handleDeleteProduct up to the await
handleDeleteProduct ==
  /\ productUpdates < MaxProductUpdates
  /\ productUpdates' = productUpdates + 1
  /\ \E i \in 1..Min(1, Len(products)) :
       LET id == products[i].id
           backup == products
           kept == SelectSeq(products, LAMBDA p : p.id # id)
       IN /\ products' = kept
          /\ storedProducts' = saveOfflineData(storedProducts, kept)
          /\ productDeleteReqs' = IF isOnline
                                  THEN productDeleteReqs \cup
                                         {[id |-> id, backup |-> backup, session |-> session]}
                                  ELSE productDeleteReqs
          /\ last' = Op("deleteProduct", "none", id)
  /\ UNCHANGED <<viewVars, expVars, backupVars, loadVars, productAddReqs, env, dbVars, session, now,
                 rateVars, salesHistory, expenses, isSyncing, storedSales, storedExpenses,
                 remoteVars, reqVars, checkouts>>

\* the remote delete succeeded
ProductDeleteOk ==
  /\ \E req \in productDeleteReqs :
       /\ remoteProducts' = SelectSeq(remoteProducts, LAMBDA p : p.id # req.id)
       /\ productDeleteReqs' = productDeleteReqs \ {req}
       /\ last' = Op("productDelete", "ok", req.id)
  /\ UNCHANGED <<viewVars, expVars, backupVars, loadVars, productAddReqs, env, dbVars, session, now,
                 rateVars, localVars, storeVars, remoteSales, remoteExpenses, nextRemoteId,
                 reqVars, countVars>>

\* the remote delete failed: the catch restores the backup
ProductDeleteFail ==
  /\ \E req \in productDeleteReqs :
       /\ productDeleteReqs' = productDeleteReqs \ {req}
       /\ IF req.session = session
          THEN /\ products' = req.backup
               /\ last' = Logged("productDelete", "failed", req.id)
          ELSE /\ products' = products
               /\ last' = Op("productDelete", "failed", req.id)
  /\ UNCHANGED <<viewVars, expVars, backupVars, loadVars, productAddReqs, env, dbVars, session, now,
                 rateVars, salesHistory, expenses, isSyncing, storeVars, remoteVars, reqVars,
                 countVars>>

(***************************************************************************)
(* Expenses                                                                *)
(***************************************************************************)
\* what can be in the amount field (type number, no minimum) and in the
\* description field of the expense form
ExpenseAmounts == {<<"5">>, <<"0">>, <<"-", "5">>, <<>>}

Descriptions == {<<>>, <<"d">>}

ExpenseCategories == {"expense", "loss"}

\* handleExpenseSubmit: if (!amount || !expenseForm.description) return
ExpenseAccepted(amountUSD, description) ==
  /\ ~(isNaN(parseFloat(amountUSD)) \/ parseFloat(amountUSD).v = 0)
  /\ description # <<>>

\* handleAddExpense tempExpense; key is the serial number of the operation,
\* kept to follow one expense through its changes of id
tempExpense(amount, description, category, t, key) ==
  [id |-> TempId(t), date |-> t, amount |-> amount, description |-> description,
   category |-> category, key |-> key]

\* the remote store completes an inserted expense row with an id
storedExpense(row, n) == [row EXCEPT !.id = DbId(n)]

\* handleAddExpense, remote insert success: the temporary expense is replaced
\* by the stored row
confirmExpense(e, tempId, data) == IF e.id = tempId THEN data ELSE e

\* a filter that keeps every expense
withoutExpenseKeepAll(exps, id) == exps

\* prev.filter(e => e.id !== id)
withoutExpense(exps, id) == SelectSeq(exps, LAMBDA e : e.id # id)

\* handleExpenseSubmit and the handleAddExpense it calls, up to the await
handleExpenseSubmit ==
  /\ expenseOps < MaxExpenseOps
  /\ expenseOps' = expenseOps + 1
  /\ \E amountUSD \in ExpenseAmounts, description \in Descriptions,
        category \in ExpenseCategories :
       IF ExpenseAccepted(amountUSD, description)
       THEN LET e == tempExpense(parseFloat(amountUSD), description, category, now,
                                 expenseOps + 1)
            IN /\ expenses' = <<e>> \o expenses
               /\ storedExpenses' = saveOfflineData(storedExpenses, <<e>> \o expenses)
               /\ expenseReqs' = IF isOnline
                                 THEN expenseReqs \cup
                                        {[tempId |-> e.id, row |-> e, session |-> session]}
                                 ELSE expenseReqs
               /\ last' = Op("expenseSubmit", "ok", <<amountUSD, description>>)
       ELSE /\ UNCHANGED <<expenses, storedExpenses, expenseReqs>>
            /\ last' = Op("expenseSubmit", "rejected", <<amountUSD, description>>)
  /\ UNCHANGED <<viewVars, deleteReqs, deletedExpenses, backupVars, prodVars, loadVars, env, session, now, rateVars,
                 products, salesHistory, isSyncing, storedProducts, storedSales, remoteVars,
                 reqVars, countVars, dbVars>>

\* the remote insert succeeded: handleAddExpense after its await, no error
ExpenseInsertOk ==
  /\ \E req \in expenseReqs :
       LET data == storedExpense(req.row, nextRemoteId)
       IN /\ remoteExpenses' = Append(remoteExpenses, data)
          /\ nextRemoteId' = nextRemoteId + 1
          /\ expenses' = IF req.session = session
                         THEN [i \in 1..Len(expenses) |->
                                 confirmExpense(expenses[i], req.tempId, data)]
                         ELSE expenses
          /\ expenseReqs' = expenseReqs \ {req}
          /\ last' = Op("expenseInsert", "ok", req.row.key)
  /\ UNCHANGED <<viewVars, deleteReqs, expenseOps, deletedExpenses, backupVars, prodVars, loadVars, env, session,
                 now, rateVars, products, salesHistory, isSyncing, storeVars, remoteProducts,
                 remoteSales, reqVars, countVars, dbVars>>

\* the remote insert failed: the catch removes the temporary expense
ExpenseInsertFail ==
  /\ \E req \in expenseReqs :
       /\ expenseReqs' = expenseReqs \ {req}
       /\ IF req.session = session
          THEN /\ expenses' = withoutExpense(expenses, req.tempId)
               /\ last' = Logged("expenseInsert", "failed", req.row.key)
          ELSE /\ expenses' = expenses
               /\ last' = Op("expenseInsert", "failed", req.row.key)
  /\ UNCHANGED <<viewVars, deleteReqs, expenseOps, deletedExpenses, backupVars, prodVars, loadVars, env, session,
                 now, rateVars, products, salesHistory, isSyncing, storeVars, remoteVars,
                 reqVars, countVars, dbVars>>

\* handleDeleteExpense up to the await: backup is the ledger of the render
\* the handler was created in
handleDeleteExpense ==
  /\ expenseOps < MaxExpenseOps
  /\ expenseOps' = expenseOps + 1
  /\ \E i \in 1..Len(expenses) :
       LET id == expenses[i].id
           backup == expenses
       IN /\ expenses' = withoutExpense(expenses, id)
          /\ storedExpenses' = saveOfflineData(storedExpenses, withoutExpense(expenses, id))
          /\ deleteReqs' = IF isOnline
                           THEN deleteReqs \cup {[id |-> id, backup |-> backup,
                                                  session |-> session]}
                           ELSE deleteReqs
          /\ deletedExpenses' = deletedExpenses \cup {expenses[i].key}
          /\ last' = Op("deleteExpense", "none", expenses[i].key)
  /\ UNCHANGED <<viewVars, expenseReqs, backupVars, prodVars, loadVars, env, session, now, rateVars, products,
                 salesHistory, isSyncing, storedProducts, storedSales, remoteVars, reqVars,
                 countVars, dbVars>>

\* ids no expense has: the clock never reads the value they are made from
MissingIds == {TempId(MaxTime + 1)}

\* handleDeleteExpense called with an id no expense of the ledger has, up to
\* the await
handleDeleteExpenseMiss ==
  /\ expenseOps < MaxExpenseOps
  /\ expenseOps' = expenseOps + 1
  /\ \E id \in MissingIds :
       LET backup == expenses
       IN /\ \A i \in 1..Len(expenses) : expenses[i].id # id
          /\ expenses' = withoutExpense(expenses, id)
          /\ storedExpenses' = saveOfflineData(storedExpenses, withoutExpense(expenses, id))
          /\ deleteReqs' = IF isOnline
                           THEN deleteReqs \cup {[id |-> id, backup |-> backup,
                                                  session |-> session]}
                           ELSE deleteReqs
          /\ last' = Op("deleteExpenseMiss", "none", id)
  /\ UNCHANGED <<viewVars, expenseReqs, deletedExpenses, backupVars, prodVars, loadVars, env, session, now,
                 rateVars, products, salesHistory, isSyncing, storedProducts, storedSales,
                 remoteVars, reqVars, countVars, dbVars>>

\* the remote delete succeeded
ExpenseDeleteOk ==
  /\ \E req \in deleteReqs :
       /\ remoteExpenses' = withoutExpense(remoteExpenses, req.id)
       /\ deleteReqs' = deleteReqs \ {req}
       /\ last' = Op("expenseDelete", "ok", req.id)
  /\ UNCHANGED <<viewVars, expenseReqs, expenseOps, deletedExpenses, backupVars, prodVars, loadVars, env, session,
                 now, rateVars, localVars, storeVars, remoteProducts, remoteSales, nextRemoteId,
                 reqVars, countVars, dbVars>>

\* the remote delete failed: the catch restores the backup
ExpenseDeleteFail ==
  /\ \E req \in deleteReqs :
       /\ deleteReqs' = deleteReqs \ {req}
       /\ IF req.session = session
          THEN /\ expenses' = req.backup
               /\ last' = Logged("expenseDelete", "failed", req.id)
          ELSE /\ expenses' = expenses
               /\ last' = Op("expenseDelete", "failed", req.id)
  /\ UNCHANGED <<viewVars, expenseReqs, expenseOps, deletedExpenses, backupVars, prodVars, loadVars, env, session,
                 now, rateVars, products, salesHistory, isSyncing, storeVars, remoteVars,
                 reqVars, countVars, dbVars>>

(***************************************************************************)
(* fetchAllData (online): three selects, each awaited                      *)
(***************************************************************************)
\* a select fails: throw, catch, finally
FetchFail ==
  /\ \E stage \in {"products", "sales", "expenses"} :
       /\ fetchReqs[stage] > 0
       /\ fetchReqs' = [fetchReqs EXCEPT ![stage] = @ - 1]
       /\ last' = Logged("fetch", "failed", stage)
  /\ isSyncing' = FALSE
  /\ UNCHANGED <<auxVars, env, dbVars, session, now, rateVars, products, salesHistory, expenses, storeVars,
                 remoteVars, saleReqs, productReqs, countVars>>

\* 1. products arrived
FetchProducts ==
  /\ fetchReqs.products > 0
  /\ products' = remoteProducts
  /\ fetchReqs' = [fetchReqs EXCEPT !.products = @ - 1, !.sales = @ + 1]
  /\ last' = Op("fetch", "ok", "products")
  /\ UNCHANGED <<auxVars, env, dbVars, session, now, rateVars, salesHistory, expenses, isSyncing, storeVars,
                 remoteVars, saleReqs, productReqs, countVars>>

\* 2. sales arrived
FetchSales ==
  /\ fetchReqs.sales > 0
  /\ \E salesData \in SelectByDateDesc(remoteSales) :
       salesHistory' = Map(mappedSale, salesData)
  /\ fetchReqs' = [fetchReqs EXCEPT !.sales = @ - 1, !.expenses = @ + 1]
  /\ last' = Op("fetch", "ok", "sales")
  /\ UNCHANGED <<auxVars, env, dbVars, session, now, rateVars, products, expenses, isSyncing, storeVars,
                 remoteVars, saleReqs, productReqs, countVars>>

\* 3. expenses arrived; finally
FetchExpenses ==
  /\ fetchReqs.expenses > 0
  /\ expenses' = remoteExpenses
  /\ isSyncing' = FALSE
  /\ fetchReqs' = [fetchReqs EXCEPT !.expenses = @ - 1]
  /\ last' = Op("fetch", "ok", "expenses")
  /\ UNCHANGED <<auxVars, env, dbVars, session, now, rateVars, products, salesHistory, storeVars,
                 remoteVars, saleReqs, productReqs, countVars>>

(***************************************************************************)
(* SalesStatsView: the report over a range of days                         *)
(***************************************************************************)
MaxDay == MaxTime \div TicksPerDay

DateInputs == {NoDate} \cup {OnDay(d) : d \in 0..MaxDay}

\* the filter of filteredSales and filteredExpenses
inRange(date, start, end) ==
  IF start.has /\ Day(date) < start.day THEN FALSE
  ELSE IF end.has /\ Day(date) > end.day THEN FALSE
  ELSE TRUE

filteredSales(sales, start, end) ==
  SelectSeq(sales, LAMBDA x : inRange(x.date, start, end))

filteredExpenses(exps, start, end) ==
  SelectSeq(exps, LAMBDA e : inRange(e.date, start, end))

RECURSIVE SumTotals(_)
SumTotals(sales) ==
  IF sales = <<>> THEN Num(0) ELSE Add(SumTotals(Tail(sales)), Head(sales).total)

RECURSIVE SumAmounts(_)
SumAmounts(exps) ==
  IF exps = <<>> THEN Num(0) ELSE Add(SumAmounts(Tail(exps)), Head(exps).amount)

\* a - b
Sub(a, b) == IF isNaN(a) \/ isNaN(b) THEN NaN ELSE Num(ToNumber(a).v - ToNumber(b).v)

\* stats with the expenses added to the revenue
statsProfitAsSum(sales, exps) ==
  [totalRevenue |-> SumTotals(sales), totalExpenses |-> SumAmounts(exps),
   netProfit |-> Add(SumTotals(sales), SumAmounts(exps))]

\* stats
stats(sales, exps) ==
  [totalRevenue |-> SumTotals(sales), totalExpenses |-> SumAmounts(exps),
   netProfit |-> Sub(SumTotals(sales), SumAmounts(exps))]

\* contribution with zelle sales counted in the cash bucket as well
contributionZelleInCash(sale, method) ==
  IF sale.paymentMethod # method /\ ~(sale.paymentMethod = "zelle" /\ method = "cash")
  THEN Num(0)
  ELSE IF method \in {"cash", "zelle"} THEN sale.total
  ELSE Mul(sale.total, sale.exchangeRate)

\* contribution with the local-currency value taken at the current rate
contributionAtCurrentRate(sale, method) ==
  IF sale.paymentMethod # method THEN Num(0)
  ELSE IF method \in {"cash", "zelle"} THEN sale.total
  ELSE Mul(sale.total, exchangeRate)

\* what one sale adds to the bucket of a payment method
contribution(sale, method) ==
  IF sale.paymentMethod # method THEN Num(0)
  ELSE IF method \in {"cash", "zelle"} THEN sale.total
  ELSE Mul(sale.total, sale.exchangeRate)

RECURSIVE bucket(_, _)
bucket(sales, method) ==
  IF sales = <<>> THEN Num(0)
  ELSE Add(bucket(Tail(sales), method), contribution(Head(sales), method))

\* cashCut
cashCut(sales) ==
  [usdCash |-> bucket(sales, "cash"), usdZelle |-> bucket(sales, "zelle"),
   vesMobile |-> bucket(sales, "mobile"), vesCard |-> bucket(sales, "card")]

\* the report shown for a range of days
report(sales, exps, start, end) ==
  [stats |-> stats(filteredSales(sales, start, end),
                   filteredExpenses(exps, start, end)),
   cashCut |-> cashCut(filteredSales(sales, start, end))]

\* the offsets of local time from UTC, in clock ticks
TzOffsets == {-1, 0, 1}

\* new Date(day) followed by setHours(0, 0, 0, 0): the day string is read as
\* midnight UTC, and setHours moves it to midnight of the local day it falls in
StartOfLocalDay(d, tz) == ((d.day * TicksPerDay + tz) \div TicksPerDay) * TicksPerDay - tz

\* new Date(day) followed by setHours(23, 59, 59, 999): the last instant of the
\* local day
EndOfLocalDay(d, tz) == StartOfLocalDay(d, tz) + TicksPerDay - 1

\* isWithinRange of the revision that compares timestamps
isWithinRange(date, start, end, tz) ==
  IF ~start.has /\ ~end.has THEN TRUE
  ELSE IF start.has /\ date < StartOfLocalDay(start, tz) THEN FALSE
  ELSE IF end.has /\ date > EndOfLocalDay(end, tz) THEN FALSE
  ELSE TRUE

\* filteredSales and filteredExpenses of the revision that compares timestamps
filteredByTimestamp(entries, start, end, tz) ==
  SelectSeq(entries, LAMBDA x : isWithinRange(x.date, start, end, tz))

\* the date inputs of the report
setStartDate ==
  /\ \E d \in DateInputs :
       /\ startDate' = d
       /\ last' = Op("setStartDate", "none", d)
  /\ UNCHANGED <<endDate, cart, expVars, backupVars, prodVars, loadVars, env, session, now, rateVars, localVars,
                 storeVars, remoteVars, reqVars, countVars, dbVars>>

setEndDate ==
  /\ \E d \in DateInputs :
       /\ endDate' = d
       /\ last' = Op("setEndDate", "none", d)
  /\ UNCHANGED <<startDate, cart, expVars, backupVars, prodVars, loadVars, env, session, now, rateVars, localVars,
                 storeVars, remoteVars, reqVars, countVars, dbVars>>

\* the ledgers a report is computed from: up to two sales, made of the carts
\* of CheckoutInputs, on any date, paid by any method at either rate, and up
\* to one expense
ReportRates == {Num(DefaultRate), Num(52)}

ReportSale(in, key, date, paymentMethod, rate) ==
  [newSaleTemp(in.cart, totals(in.cart), paymentMethod, <<>>, "pending", date, rate, key)
     EXCEPT !.id = DbId(key)]

ReportSalesOf(key) ==
  {ReportSale(in, key, date, paymentMethod, rate) :
     in \in {i \in CheckoutInputs(PRODUCTS) : (i.paymentMethod = "cash") = (key = 1)},
     date \in 0..MaxTime, paymentMethod \in PaymentMethods, rate \in ReportRates}

ReportSales ==
  {<<>>} \cup {<<a>> : a \in ReportSalesOf(1)}
  \cup {<<b, a>> : b \in ReportSalesOf(2), a \in ReportSalesOf(1)}

ReportExpenses ==
  {<<>>} \cup {<<[id |-> DbId(1), date |-> date, amount |-> Num(200), description |-> <<"d">>,
                  category |-> "expense", key |-> 1]>> : date \in 0..MaxTime}

\* the application offline with these ledgers in memory and in local storage
InitReport ==
  /\ env = "absent"
  /\ session = 0
  /\ now = MaxTime
  /\ exchangeRate = InitialRate(NoItem)
  /\ storedRate = PersistRate(InitialRate(NoItem))
  /\ isLoadingRate = TRUE
  /\ rateReqs = 1
  /\ refreshes = 0
  /\ products = PRODUCTS
  /\ salesHistory \in ReportSales
  /\ expenses \in ReportExpenses
  /\ isSyncing = FALSE
  /\ storedProducts = Item(PRODUCTS)
  /\ storedSales = Item(Map(JsonSale, salesHistory))
  /\ storedExpenses = Item(expenses)
  /\ remoteProducts = PRODUCTS
  /\ remoteSales = <<>>
  /\ remoteExpenses = <<>>
  /\ nextRemoteId = 1
  /\ saleReqs = {}
  /\ productReqs = {}
  /\ fetchReqs = NoFetch
  /\ dbSales = <<>>
  /\ dbOps = 0
  /\ checkouts = Len(salesHistory)
  /\ productUpdates = 0
  /\ startDate = Today(now)
  /\ endDate = Today(now)
  /\ cart = <<>>
  /\ expenseReqs = {}
  /\ deleteReqs = {}
  /\ productAddReqs = {}
  /\ productDeleteReqs = {}
  /\ expenseOps = Len(expenses)
  /\ deletedExpenses = {}
  /\ pendingLoad = NoLoad
  /\ backupFile = NoFile
  /\ importResult = NoImport
  /\ last = Op("init", "none", <<>>)

(***************************************************************************)
(* LocalDB: backup export and import                                       *)
(***************************************************************************)
\* JSON.stringify of the ledgers: a number that is NaN is written as null.
\* The price of a product is never NaN (the product form rejects it)
JsonProduct(p) == p

JsonExpense(e) == [e EXCEPT !.amount = JsonValue(@)]

\* exportData with the expenses left out of the document
exportDataWithoutExpenses(prods, sales, exps, rate) ==
  [kind |-> "object", products |-> JArr(Map(JsonProduct, prods)),
   sales |-> JArr(Map(JsonSale, sales)), expenses |-> Absent,
   exchangeRate |-> JsonValue(rate)]

\* exportData: the document downloaded, as JSON.parse reads it back
exportData(prods, sales, exps, rate) ==
  [kind |-> "object", products |-> JArr(Map(JsonProduct, prods)),
   sales |-> JArr(Map(JsonSale, sales)), expenses |-> JArr(Map(JsonExpense, exps)),
   exchangeRate |-> JsonValue(rate)]

\* what the fields products and sales of a foreign document can hold
FieldShapes == {Absent, JNull, JArr(<<>>), JStr(<<"x">>), JNum(0), JNum(1), JObj}

\* files not written by exportData: unreadable, not JSON, the JSON values null
\* and 5, and objects
ForeignFiles ==
  {[kind |-> k, products |-> Absent, sales |-> Absent, expenses |-> Absent,
    exchangeRate |-> Null] : k \in {"unreadable", "text", "null", "number"}}
  \cup {[kind |-> "object", products |-> p, sales |-> JArr(<<>>), expenses |-> Absent,
         exchangeRate |-> Null] : p \in FieldShapes}
  \cup {[kind |-> "object", products |-> JArr(<<>>), sales |-> x, expenses |-> Absent,
         exchangeRate |-> Null] : x \in FieldShapes}
  \cup {[kind |-> "object", products |-> p, sales |-> p, expenses |-> Absent,
         exchangeRate |-> Null] : p \in FieldShapes}

\* importData: how the promise settles
importData(file) ==
  IF file.kind = "unreadable" THEN [state |-> "rejected", file |-> file]
  ELSE IF file.kind = "text" \/ file.kind = "null" THEN [state |-> "rejected", file |-> file]
  ELSE IF ~Truthy(file.products) \/ ~Truthy(file.sales)
  THEN [state |-> "rejected", file |-> file]
  ELSE [state |-> "resolved", file |-> file]

\* the export button
ExportBackup ==
  /\ backupFile' = exportData(products, salesHistory, expenses, exchangeRate)
  /\ last' = Op("exportData", "none", <<>>)
  /\ UNCHANGED <<viewVars, expVars, prodVars, loadVars, importResult, env, session, now, rateVars, localVars,
                 storeVars, remoteVars, reqVars, countVars, dbVars>>

\* a file is chosen for import: a foreign file or the backup last downloaded
ImportBackup ==
  /\ \E file \in ForeignFiles \cup (IF backupFile = NoFile THEN {} ELSE {backupFile}) :
       /\ importResult' = importData(file)
       /\ last' = Op("importData", importData(file).state, file.kind)
  /\ UNCHANGED <<viewVars, expVars, prodVars, loadVars, backupFile, env, session, now, rateVars, localVars,
                 storeVars, remoteVars, reqVars, countVars, dbVars>>

(***************************************************************************)
(* The db data layer (Supabase revision): sales                            *)
(***************************************************************************)
OrderStatuses == {"pending", "ready", "completed", "cancelled"}

\* a Sale as handed to db.saveSale
dbSale(id, status) ==
  [id |-> id, status |-> status, total |-> Num(1300), paymentMethod |-> "cash",
   exchangeRate |-> Num(DefaultRate)]

\* update({status}).eq('id', id)
withStatus(row, id, status) == IF row.id = id THEN [row EXCEPT !.status = status] ELSE row

\* db.saveSale: insert the sale; an error is logged, not thrown
db_saveSale ==
  /\ dbOps < MaxDbOps
  /\ dbOps' = dbOps + 1
  /\ \E id \in 1..MaxDbSales, deliveryType \in DeliveryTypes, ok \in BOOLEAN :
       LET sale == dbSale(id, confirmPaymentStatus(deliveryType))
           fresh == \A i \in 1..Len(dbSales) : dbSales[i].id # id
       IN IF ~isSupabaseConfigured
          THEN /\ dbSales' = dbSales
               /\ last' = Op("db.saveSale", "skipped", id)
          ELSE IF ok /\ fresh
          THEN /\ dbSales' = Append(dbSales, sale)
               /\ last' = Op("db.saveSale", "ok", id)
          ELSE /\ dbSales' = dbSales
               /\ last' = Logged("db.saveSale", "failed", id)
  /\ UNCHANGED <<auxVars, env, session, now, rateVars, localVars, storeVars, remoteVars, reqVars,
                 countVars>>

\* db.updateSaleStatus: write the status of the rows with this id; an error
\* is logged, not thrown
db_updateSaleStatus ==
  /\ dbOps < MaxDbOps
  /\ dbOps' = dbOps + 1
  /\ \E id \in 1..MaxDbSales, status \in OrderStatuses, ok \in BOOLEAN :
       IF ~isSupabaseConfigured
       THEN /\ dbSales' = dbSales
            /\ last' = Op("db.updateSaleStatus", "skipped", <<id, status>>)
       ELSE IF ok
       THEN /\ dbSales' = [i \in 1..Len(dbSales) |-> withStatus(dbSales[i], id, status)]
            /\ last' = Op("db.updateSaleStatus", "ok", <<id, status>>)
       ELSE /\ dbSales' = dbSales
            /\ last' = Logged("db.updateSaleStatus", "failed", <<id, status>>)
  /\ UNCHANGED <<auxVars, env, session, now, rateVars, localVars, storeVars, remoteVars, reqVars,
                 countVars>>

\* the exchange rate: refresh, manual update, page reload
NextRate ==
  \/ Restart
  \/ RefreshClick
  \/ RefreshResponse
  \/ handleManualSubmit

\* the ledgers and their synchronisation with the remote store
NextLedger ==
  \/ Tick
  \/ handleCheckout
  \/ SaleInsertOk
  \/ SaleInsertFail
  \/ handleUpdateProduct
  \/ ProductUpdateOk
  \/ ProductUpdateFail
  \/ FetchFail
  \/ FetchProducts
  \/ FetchSales
  \/ FetchExpenses

\* checkouts while the rate changes
NextSales ==
  \/ handleCheckout
  \/ SaleInsertOk
  \/ FetchProducts
  \/ RefreshResponse
  \/ handleManualSubmit

\* the db data layer
NextDb ==
  \/ db_saveSale
  \/ db_updateSaleStatus

\* the expense ledger and its synchronisation with the remote store
NextExpense ==
  \/ handleExpenseSubmit
  \/ ExpenseInsertOk
  \/ ExpenseInsertFail
  \/ handleDeleteExpense
  \/ ExpenseDeleteOk
  \/ ExpenseDeleteFail
  \/ FetchProducts
  \/ FetchSales
  \/ FetchExpenses

\* the catalog and its synchronisation with the remote store
NextProducts ==
  \/ FetchProducts
  \/ FetchSales
  \/ FetchExpenses
  \/ handleAddProduct
  \/ ProductInsertOk
  \/ ProductInsertFail
  \/ handleUpdateProduct
  \/ ProductUpdateOk
  \/ ProductUpdateFail
  \/ handleDeleteProduct
  \/ ProductDeleteOk
  \/ ProductDeleteFail

\* every mutation of the ledgers and the catalog, and the page reload
NextOffline ==
  \/ Restart
  \/ handleCheckout
  \/ handleExpenseSubmit
  \/ handleDeleteExpense
  \/ handleAddProduct
  \/ handleUpdateProduct
  \/ handleDeleteProduct

\* checkouts, expenses and the remote writes they dispatch
NextWrites ==
  \/ handleCheckout
  \/ SaleInsertOk
  \/ SaleInsertFail
  \/ handleExpenseSubmit
  \/ ExpenseInsertOk
  \/ ExpenseInsertFail
  \/ handleDeleteExpense
  \/ ExpenseDeleteOk
  \/ ExpenseDeleteFail

\* remote updates and deletes that fail
NextRollback ==
  \/ handleExpenseSubmit
  \/ ExpenseInsertOk
  \/ handleDeleteExpense
  \/ ExpenseDeleteFail
  \/ handleUpdateProduct
  \/ ProductUpdateFail
  \/ handleDeleteProduct
  \/ ProductDeleteFail
  \/ FetchProducts
  \/ FetchSales
  \/ FetchExpenses

\* deletes and status updates by an id that matches no record
NextMiss ==
  \/ handleExpenseSubmit
  \/ handleDeleteExpenseMiss
  \/ ExpenseDeleteOk
  \/ ExpenseDeleteFail
  \/ db_saveSale
  \/ db_updateSaleStatus

\* mutations while a fetch, the rate refresh and the remote writes are awaited
\* and none of them is answered
NextBusy ==
  \/ handleCheckout
  \/ handleExpenseSubmit
  \/ handleDeleteExpense
  \/ handleManualSubmit

\* the ledgers across a page load; the handlers run on a rendered page
NextReload ==
  \/ PageLoad
  \/ Render
  \/ (~pendingLoad.has /\ handleCheckout)
  \/ (~pendingLoad.has /\ handleExpenseSubmit)
  \/ (~pendingLoad.has /\ handleDeleteExpense)

\* the cart and the checkout of its contents
NextCart ==
  \/ FetchProducts
  \/ handleAddToCart
  \/ handleIncrement
  \/ handleDecrement
  \/ handleRemove
  \/ confirmPayment

\* backups of the ledgers
NextBackup ==
  \/ ExportBackup
  \/ ImportBackup

\* the report and its date inputs
NextReport ==
  \/ setStartDate
  \/ setEndDate

Next == NextRate \/ NextLedger \/ NextDb \/ NextReport \/ NextExpense \/ NextBackup \/ NextCart \/ NextProducts \/ NextOffline \/ NextWrites \/ NextRollback \/ NextMiss \/ NextBusy \/ NextReload

Spec == Init /\ [][Next]_vars

SpecRate == Init /\ [][NextRate]_vars

SpecLedger == Init /\ [][NextLedger]_vars

SpecDb == Init /\ [][NextDb]_vars

SpecSales == Init /\ [][NextSales]_vars

SpecReport == InitReport /\ [][NextReport]_vars

SpecExpense == Init /\ [][NextExpense]_vars

SpecBackup == InitReport /\ [][NextBackup]_vars

SpecCart == Init /\ [][NextCart]_vars

SpecProducts == Init /\ [][NextProducts]_vars

\* the first page load once fetchAllData has set the catalog (offline: at
\* once), with these selects of it and the rate request still awaited
InitLoaded(awaited) ==
  /\ env \in Envs
  /\ session = 0
  /\ now = 0
  /\ exchangeRate = InitialRate(NoItem)
  /\ storedRate = PersistRate(InitialRate(NoItem))
  /\ isLoadingRate = TRUE
  /\ rateReqs = 1
  /\ refreshes = 0
  /\ products = PRODUCTS
  /\ salesHistory = <<>>
  /\ expenses = <<>>
  /\ isSyncing = (isOnline /\ awaited # NoFetch)
  /\ storedProducts = IF isOnline THEN NoItem ELSE Item(PRODUCTS)
  /\ storedSales = IF isOnline THEN NoItem ELSE Item(<<>>)
  /\ storedExpenses = IF isOnline THEN NoItem ELSE Item(<<>>)
  /\ remoteProducts = PRODUCTS
  /\ remoteSales = <<>>
  /\ remoteExpenses = <<>>
  /\ nextRemoteId = 1
  /\ saleReqs = {}
  /\ productReqs = {}
  /\ fetchReqs = IF isOnline THEN awaited ELSE NoFetch
  /\ dbSales = <<>>
  /\ dbOps = 0
  /\ checkouts = 0
  /\ productUpdates = 0
  /\ startDate = Today(0)
  /\ endDate = Today(0)
  /\ cart = <<>>
  /\ expenseReqs = {}
  /\ deleteReqs = {}
  /\ productAddReqs = {}
  /\ productDeleteReqs = {}
  /\ expenseOps = 0
  /\ deletedExpenses = {}
  /\ pendingLoad = NoLoad
  /\ backupFile = NoFile
  /\ importResult = NoImport
  /\ last = IF ~isOnline THEN Op("init", "none", <<>>)
            ELSE IF awaited = NoFetch THEN Op("fetch", "ok", "expenses")
            ELSE Op("fetch", "ok", "products")

\* fetchAllData has finished
InitSynced == InitLoaded(NoFetch)

\* the catalog has arrived, the select of the sales is awaited
InitSyncing == InitLoaded([NoFetch EXCEPT !.sales = 1])

\* connected, syncing or offline
InitBusy == InitSynced \/ InitSyncing

SpecWrites == InitSynced /\ [][NextWrites]_vars

SpecRollback == InitSynced /\ [][NextRollback]_vars

SpecMiss == InitSynced /\ [][NextMiss]_vars

SpecBusy == InitBusy /\ [][NextBusy]_vars

\* the application started without the credentials of the remote store
InitOffline == Init /\ env = "absent"

SpecOffline == InitOffline /\ [][NextOffline]_vars

SpecReload == InitOffline /\ [][NextReload]_vars

(***************************************************************************)
(* Order numbers and order status                                          *)
(***************************************************************************)
\* the sales of the ledger created on the same calendar day as sale i, up to
\* and including sale i (the ledger is newest first)
SameDayUpTo(i) ==
  {j \in i..Len(salesHistory) : Day(salesHistory[j].date) = Day(salesHistory[i].date)}

\* C1: the n-th checkout of a calendar day has orderNumber n: numbers run
\* 1..N in creation order within a day and restart at 1 on another day
C1_OrderNumbersPerDay ==
  \A i \in 1..Len(salesHistory) :
    /\ "orderNumber" \in DOMAIN salesHistory[i]
    /\ salesHistory[i].orderNumber = Cardinality(SameDayUpTo(i))

ValidTransitions ==
  {<<"pending", "ready">>, <<"ready", "completed">>,
   <<"pending", "cancelled">>, <<"ready", "cancelled">>}

\* C2: in every step the status of a stored sale stays the same or moves
\* along an edge of the transition table
C2_StatusFollowsTable ==
  [][\A i \in 1..Len(dbSales) :
       \/ dbSales'[i].status = dbSales[i].status
       \/ <<dbSales[i].status, dbSales'[i].status>> \in ValidTransitions]_vars

\* C3: the sale a checkout adds has status pending when routed to the
\* kitchen and completed when delivered directly
C3_StatusAtCreation ==
  last.op = "checkout" =>
    /\ "status" \in DOMAIN Head(salesHistory)
    /\ Head(salesHistory).status = confirmPaymentStatus(last.outcome)

(***************************************************************************)
(* The rate frozen on a sale                                               *)
(***************************************************************************)
\* the report over the period without bounds, which includes every sale
Reports == report(salesHistory, expenses, NoDate, NoDate)

\* C4: the sale a checkout adds carries the rate current at the call, and a
\* step that changes the current rate changes no sale of the ledger and no
\* value of any report
C4_RateFrozenAtSale ==
  [][/\ last'.op = "checkout" => Head(salesHistory').exchangeRate = exchangeRate
     /\ exchangeRate' # exchangeRate =>
          /\ salesHistory' = salesHistory
          /\ Reports' = Reports]_vars

\* a local-currency sale whose rate differs from the current rate
C4_Witness ==
  \E i \in 1..Len(salesHistory) :
    /\ salesHistory[i].paymentMethod = "mobile"
    /\ salesHistory[i].exchangeRate # exchangeRate

(***************************************************************************)
(* The fields of a sale after its creation                                 *)
(***************************************************************************)
\* sale a of one state and sale b of the next are the same sale
SameSale(a, b) == a.key = b.key

C6_SaleNeverRemoved ==
  [][session' = session =>
       \A i \in 1..Len(salesHistory) :
         \E j \in 1..Len(salesHistory') : SameSale(salesHistory[i], salesHistory'[j])]_vars

(***************************************************************************)
(* The current rate                                                        *)
(***************************************************************************)
\* C7: the current rate is a number strictly greater than zero
C7_RatePositive == exchangeRate.k = "number" /\ exchangeRate.v > 0

\* a page load with a stored rate other than the default, after a failed refresh
C7_Witness ==
  /\ session > 0
  /\ exchangeRate # Num(DefaultRate)
  /\ last.op = "refreshResponse"
  /\ last.outcome = "failed"

\* C8: the step that handles a failed refresh leaves the rate as it was
C8_FailedRefreshKeepsRate ==
  [][(last'.op = "refreshResponse" /\ last'.outcome = "failed") =>
       exchangeRate' = exchangeRate]_vars

\* a refresh failed by an error thrown while the rate was not the default
C8_Witness ==
  /\ last.op = "refreshResponse"
  /\ last.outcome = "failed"
  /\ last.arg \in {"network", "notOk", "badJson"}
  /\ exchangeRate # Num(DefaultRate)

\* C9: every failed refresh reports its failure
C9_FailedRefreshReported ==
  (last.op = "refreshResponse" /\ last.outcome = "failed") => last.logged

\* C10: a manual submit of a strictly positive value makes it the current
\* rate; a submit of zero, a negative value or NaN leaves the rate unchanged
C10_ManualUpdate ==
  [][last'.op = "manualSubmit" =>
       IF GtZero(parseFloat(last'.arg))
       THEN exchangeRate' = parseFloat(last'.arg)
       ELSE exchangeRate' = exchangeRate]_vars

\* a rejected manual submit after an accepted one
C10_Witness ==
  /\ last.op = "manualSubmit"
  /\ last.outcome = "failed"
  /\ exchangeRate = Num(50)

(***************************************************************************)
(* The report                                                              *)
(***************************************************************************)
\* the report on screen
Shown == report(salesHistory, expenses, startDate, endDate)

ShownSales == filteredSales(salesHistory, startDate, endDate)

\* a / b
Div(a, b) ==
  IF isNaN(a) \/ isNaN(b) \/ ToNumber(b).v = 0 THEN NaN
  ELSE Num(ToNumber(a).v \div ToNumber(b).v)

\* the local-currency contributions of the sales, each converted back at the
\* sale's own rate
RECURSIVE LocalAsUsd(_)
LocalAsUsd(sales) ==
  IF sales = <<>> THEN Num(0)
  ELSE Add(LocalAsUsd(Tail(sales)),
           Div(Add(cashCut(<<Head(sales)>>).vesMobile, cashCut(<<Head(sales)>>).vesCard),
               Head(sales).exchangeRate))

\* C11: cash bucket + zelle bucket + the mobile and card contributions, each
\* divided by its sale's own rate, equal totalRevenue of the filtered sales
C11_BucketsSumToRevenue ==
  Add(Add(Shown.cashCut.usdCash, Shown.cashCut.usdZelle), LocalAsUsd(ShownSales))
    = Shown.stats.totalRevenue

\* a report over a USD sale and a local-currency sale made at another rate
C11_Witness ==
  /\ Len(ShownSales) = 2
  /\ ShownSales[1].paymentMethod = "card"
  /\ ShownSales[1].exchangeRate # exchangeRate
  /\ ShownSales[2].paymentMethod = "zelle"
  /\ last.op = "setEndDate"

\* day start <= day of date <= day end, both ends included
DayInRange(date) == startDate.day <= Day(date) /\ Day(date) <= endDate.day

\* C12: with both bounds set, the report includes an entry exactly when the
\* calendar day of its date lies in [startDay, endDay], in either revision of
\* the filter and whatever the local time zone
C12_FilterByDay ==
  (startDate.has /\ endDate.has) =>
    /\ ShownSales = SelectSeq(salesHistory, LAMBDA x : DayInRange(x.date))
    /\ filteredExpenses(expenses, startDate, endDate)
         = SelectSeq(expenses, LAMBDA x : DayInRange(x.date))
    /\ \A tz \in TzOffsets :
         /\ filteredByTimestamp(salesHistory, startDate, endDate, tz)
              = SelectSeq(salesHistory, LAMBDA x : DayInRange(x.date))
         /\ filteredByTimestamp(expenses, startDate, endDate, tz)
              = SelectSeq(expenses, LAMBDA x : DayInRange(x.date))

\* the sum of field total (or amount) over the entries with index in S
RECURSIVE SumOfTotals(_, _)
SumOfTotals(S, q) ==
  IF S = {} THEN 0
  ELSE LET i == CHOOSE j \in S : TRUE IN q[i].total.v + SumOfTotals(S \ {i}, q)

RECURSIVE SumOfAmounts(_, _)
SumOfAmounts(S, q) ==
  IF S = {} THEN 0
  ELSE LET i == CHOOSE j \in S : TRUE IN q[i].amount.v + SumOfAmounts(S \ {i}, q)

InPeriod(q) == {i \in 1..Len(q) : inRange(q[i].date, startDate, endDate)}

\* C13: totalRevenue is the sum of total over the filtered sales,
\* totalExpenses the sum of amount over the filtered expenses, and netProfit
\* their difference
C13_StatsAreSums ==
  /\ Shown.stats.totalRevenue = Num(SumOfTotals(InPeriod(salesHistory), salesHistory))
  /\ Shown.stats.totalExpenses = Num(SumOfAmounts(InPeriod(expenses), expenses))
  /\ Shown.stats.netProfit
       = Num(SumOfTotals(InPeriod(salesHistory), salesHistory)
             - SumOfAmounts(InPeriod(expenses), expenses))

\* a report with an expense and one of two sales in the period
C13_Witness ==
  /\ Len(salesHistory) = 2
  /\ Cardinality(InPeriod(salesHistory)) = 1
  /\ InPeriod(expenses) # {}
  /\ last.op = "setStartDate"

\* what a sale adds to each bucket
Contribution(sale) ==
  [usdCash |-> IF sale.paymentMethod = "cash" THEN sale.total ELSE Num(0),
   usdZelle |-> IF sale.paymentMethod = "zelle" THEN sale.total ELSE Num(0),
   vesMobile |-> IF sale.paymentMethod = "mobile"
                 THEN Num(sale.total.v * sale.exchangeRate.v) ELSE Num(0),
   vesCard |-> IF sale.paymentMethod = "card"
               THEN Num(sale.total.v * sale.exchangeRate.v) ELSE Num(0)]

\* C14: each filtered sale adds its total to the bucket of its method when
\* paid in cash or by zelle, total x its own rate when paid by mobile or card,
\* and nothing to the other buckets
C14_BucketPerMethod ==
  \A i \in 1..Len(ShownSales) :
    LET with == cashCut(SubSeq(ShownSales, i, Len(ShownSales)))
        without == cashCut(SubSeq(ShownSales, i + 1, Len(ShownSales)))
    IN \A b \in {"usdCash", "usdZelle", "vesMobile", "vesCard"} :
         with[b] = Add(without[b], Contribution(ShownSales[i])[b])

\* a report over two mobile sales, one of them made at another rate
C14_Witness ==
  /\ Len(ShownSales) = 2
  /\ ShownSales[1].paymentMethod = "mobile"
  /\ ShownSales[2].paymentMethod = "mobile"
  /\ ShownSales[1].exchangeRate # exchangeRate
  /\ last.op = "setStartDate"

(***************************************************************************)
(* Expenses                                                                *)
(***************************************************************************)
\* C15: an expense handleDeleteExpense was called for is absent from the
\* expense ledger, and so from every total computed from it, in every later
\* state
C15_DeletedStaysAbsent ==
  \A k \in deletedExpenses : \A i \in 1..Len(expenses) : expenses[i].key # k

\* C20: a submission of the expense form whose amount is not strictly
\* positive or whose description is empty leaves the expense ledger unchanged
C20_ExpenseValidated ==
  [][last'.op = "expenseSubmit" =>
       \/ /\ GtZero(parseFloat(last'.arg[1]))
          /\ last'.arg[2] # <<>>
       \/ expenses' = expenses]_vars

(***************************************************************************)
(* Backups                                                                 *)
(***************************************************************************)
\* the document has a products array and a sales array
HasLedgerArrays(file) ==
  /\ file.kind = "object"
  /\ file.products.t = "array"
  /\ file.sales.t = "array"

\* C16: importData rejects every document in which products or sales is
\* missing, null or not an array, and resolves only when both are arrays; the
\* in-memory ledgers are untouched by a rejection
C16_ImportValidated ==
  /\ importResult.state = "resolved" => HasLedgerArrays(importResult.file)
  /\ importResult.state = "rejected" => ~HasLedgerArrays(importResult.file)

RECURSIVE SumOfItems(_, _)
SumOfItems(S, items) ==
  IF S = {} THEN 0
  ELSE LET i == CHOOSE j \in S : TRUE
       IN items[i].price * items[i].quantity + SumOfItems(S \ {i}, items)

\* C19: the sale a confirmed payment records holds exactly the items of the
\* cart at that moment, and the total of every sale of the ledger is the sum
\* of price x quantity over its items
C19_TotalIsSumOfItems ==
  [][/\ last'.op = "checkout" => Head(salesHistory').items = cart
     /\ \A i \in 1..Len(salesHistory') :
          salesHistory'[i].total
            = Num(SumOfItems(DOMAIN salesHistory'[i].items, salesHistory'[i].items))]_vars

\* a sale of two products, one of them taken twice
C19_Witness ==
  /\ last.op = "checkout"
  /\ Len(Head(salesHistory).items) = 2
  /\ Head(salesHistory).items[1].quantity = 2
  /\ Head(salesHistory).items[2].quantity = 1

(***************************************************************************)
(* Without the credentials of the remote store                             *)
(***************************************************************************)
\* no call of the remote store is awaited, nothing was logged as an error, and
\* local storage holds the catalog and the ledgers in memory
OfflineIsLocal ==
  /\ saleReqs = {}
  /\ productReqs = {}
  /\ productAddReqs = {}
  /\ productDeleteReqs = {}
  /\ expenseReqs = {}
  /\ deleteReqs = {}
  /\ fetchReqs = NoFetch
  /\ ~isSyncing
  /\ ~last.logged
  /\ storedProducts = Item(products)
  /\ storedSales = Item(Map(JsonSale, salesHistory))
  /\ storedExpenses = Item(expenses)

\* C18: without credentials, before and after every step (start-up included)
\* no remote call is pending and no error was raised, every mutation has
\* changed the state in memory, and local storage holds that state
C18_OfflineIsLocalOnly ==
  [][env = "absent" =>
       /\ OfflineIsLocal
       /\ OfflineIsLocal'
       /\ last'.op = "checkout" => Len(salesHistory') = Len(salesHistory) + 1
       /\ (last'.op = "expenseSubmit" /\ last'.outcome = "ok")
            => Len(expenses') = Len(expenses) + 1
       /\ last'.op = "deleteExpense"
            => \A i \in 1..Len(expenses') : expenses'[i].key # last'.arg
       /\ last'.op = "addProduct" => Len(products') = Len(products) + 1
       /\ last'.op = "updateProduct"
            => products'[1].price = products[1].price + PriceStep
       /\ last'.op = "deleteProduct" => Len(products') = Len(products) - 1
       /\ last'.op = "restart"
            => /\ products' = products
               /\ salesHistory' = salesHistory
               /\ expenses' = expenses]_vars

\* offline, a sale and an expense are in the ledgers after a page reload
C18_Witness ==
  /\ env = "absent"
  /\ session > 0
  /\ last.op = "restart"
  /\ Len(salesHistory) > 0
  /\ Len(expenses) > 0

(***************************************************************************)
(* Ids of sales                                                            *)
(***************************************************************************)
\* C21: no two sales of the ledger have the same id
C21_SaleIdsUnique ==
  \A i, j \in 1..Len(salesHistory) :
    i # j => salesHistory[i].id # salesHistory[j].id

(***************************************************************************)
(* Optimistic updates                                                      *)
(***************************************************************************)
\* C22: when a remote insert of a sale or of an expense is dispatched the
\* record is in the ledger in memory, and when a remote delete of an expense
\* is dispatched the expense is no longer in it
C22_LocalBeforeRemote ==
  [][/\ \A req \in saleReqs' \ saleReqs :
          \E i \in 1..Len(salesHistory') :
            /\ salesHistory'[i].id = req.tempId
            /\ salesHistory'[i].key = req.row.key
     /\ \A req \in expenseReqs' \ expenseReqs :
          \E i \in 1..Len(expenses') :
            /\ expenses'[i].id = req.tempId
            /\ expenses'[i].key = req.row.key
     /\ \A req \in deleteReqs' \ deleteReqs :
          \A i \in 1..Len(expenses') : expenses'[i].id # req.id]_vars

\* a sale insert, an expense insert and an expense delete have been dispatched
C22_Witness ==
  /\ saleReqs # {}
  /\ expenseReqs # {}
  /\ deleteReqs # {}
  /\ last.op = "deleteExpense"

(***************************************************************************)
(* Failed remote inserts                                                   *)
(***************************************************************************)
\* the ledger holds a sale under its temporary id although no insert of it is
\* awaited any more: its remote insert failed and it was retained
SaleRetainedAfterFailure ==
  /\ isOnline
  /\ \E i \in 1..Len(salesHistory) :
       /\ salesHistory[i].id.src = "tmp"
       /\ \A req \in saleReqs : req.row.key # salesHistory[i].key

\* the last step was the failure of a sale insert and removed the sale
SaleRemovedByFailure ==
  /\ last.op = "saleInsert"
  /\ last.outcome = "failed"
  /\ \A i \in 1..Len(salesHistory) : salesHistory[i].key # last.arg

\* the ledger holds an expense under its temporary id although no insert of it
\* is awaited any more
ExpenseRetainedAfterFailure ==
  /\ isOnline
  /\ \E i \in 1..Len(expenses) :
       /\ expenses[i].id.src = "tmp"
       /\ \A req \in expenseReqs : req.row.key # expenses[i].key

\* the last step was the failure of an expense insert and removed the expense
\* (handleDeleteExpense had not been called for it)
ExpenseRemovedByFailure ==
  /\ last.op = "expenseInsert"
  /\ last.outcome = "failed"
  /\ last.arg \notin deletedExpenses
  /\ \A i \in 1..Len(expenses) : expenses[i].key # last.arg

\* C24: a failed remote insert has the same effect on a sale and on an
\* expense: never is one kind of record retained and the other removed
C24_FailedInsertsAlike ==
  /\ ~(SaleRetainedAfterFailure /\ ExpenseRemovedByFailure)
  /\ ~(ExpenseRetainedAfterFailure /\ SaleRemovedByFailure)

(***************************************************************************)
(* Failed remote updates and deletes                                       *)
(***************************************************************************)
\* C25: the step in which a remote update or delete fails leaves the catalog
\* and the expense ledger as they were (diverged, possibly with a re-fetch
\* started) or makes them the rows of the remote table
C25_FailureRefetchesOrDiverges ==
  [][(last'.outcome = "failed"
      /\ last'.op \in {"productUpdate", "productDelete", "expenseDelete"})
     => /\ products' = products \/ products' = remoteProducts
        /\ expenses' = expenses \/ expenses' = remoteExpenses]_vars

(***************************************************************************)
(* Lookup misses                                                           *)
(***************************************************************************)
\* C26: a delete of an expense by an id no expense has changes neither
\* ledger and logs no error when it is called, and neither ledger changes when
\* the remote call it made is answered; a status update by an id no sale has
\* leaves the sales as they were
C26_MissIsNoOp ==
  [][/\ last'.op = "deleteExpenseMiss"
          => /\ expenses' = expenses
             /\ salesHistory' = salesHistory
             /\ ~last'.logged
     /\ (last'.op = "expenseDelete" /\ last'.arg \in MissingIds)
          => /\ expenses' = expenses
             /\ salesHistory' = salesHistory
     /\ (/\ last'.op = "db.updateSaleStatus"
         /\ \A i \in 1..Len(dbSales) : dbSales[i].id # last'.arg[1])
          => dbSales' = dbSales]_vars

(***************************************************************************)
(* The cart                                                                *)
(***************************************************************************)
\* every item has a quantity of at least 1 and no two items have the same id
CartWellFormed(items) ==
  /\ \A i \in 1..Len(items) : items[i].quantity \in Nat \ {0}
  /\ \A i, j \in 1..Len(items) : i # j => items[i].id # items[j].id

QuantityOf(items, id) ==
  IF \E i \in 1..Len(items) : items[i].id = id
  THEN (CHOOSE item \in Range(items) : item.id = id).quantity
  ELSE 0

\* C27: the cart is well formed before and after every step; adding a product
\* that is in the cart adds 1 to its quantity and adds no item, decrementing
\* an item of quantity 1 removes it, and a confirmed checkout empties the cart
C27_CartWellFormed ==
  [][/\ CartWellFormed(cart)
     /\ CartWellFormed(cart')
     /\ (last'.op = "addToCart" /\ QuantityOf(cart, last'.arg) > 0)
          => /\ Len(cart') = Len(cart)
             /\ QuantityOf(cart', last'.arg) = QuantityOf(cart, last'.arg) + 1
     /\ (last'.op = "addToCart" /\ QuantityOf(cart, last'.arg) = 0)
          => /\ Len(cart') = Len(cart) + 1
             /\ QuantityOf(cart', last'.arg) = 1
     /\ (last'.op = "decrement" /\ QuantityOf(cart, last'.arg) = 1)
          => /\ QuantityOf(cart', last'.arg) = 0
             /\ Len(cart') = Len(cart) - 1
     /\ (last'.op = "decrement" /\ QuantityOf(cart, last'.arg) > 1)
          => QuantityOf(cart', last'.arg) = QuantityOf(cart, last'.arg) - 1
     /\ last'.op = "checkout" => cart' = <<>>]_vars

\* a product of the cart was added again, and an item of quantity 1 was
\* decremented out of a cart of two
C27_Witness ==
  /\ last.op = "decrement"
  /\ Len(cart) = 1
  /\ cart[1].quantity = 2
  /\ Len(salesHistory) = 1

(***************************************************************************)
(* Rollback of a failed delete                                             *)
(***************************************************************************)
\* the serial numbers of the expenses of a ledger, the one with this id apart
OtherKeys(exps, id) == {exps[i].key : i \in {j \in 1..Len(exps) : exps[j].id # id}}

\* C28: the step in which the remote delete of an expense fails changes the
\* presence of no other expense
C28_RollbackOnlyRestoresDeleted ==
  [][(last'.op = "expenseDelete" /\ last'.outcome = "failed")
       => OtherKeys(expenses', last'.arg) = OtherKeys(expenses, last'.arg)]_vars

(***************************************************************************)
(* Manual update while a refresh is awaited                                *)
(***************************************************************************)
\* C29: the response of a refresh that was awaited when the rate was set by
\* hand leaves the rate as it was set: a response that immediately follows an
\* accepted manual update belongs to a refresh started before the update
C29_ManualRateSurvivesOldRefresh ==
  [][(/\ last.op = "manualSubmit"
      /\ last.outcome = "ok"
      /\ last'.op = "refreshResponse")
       => exchangeRate' = exchangeRate]_vars

(***************************************************************************)
(* Mutations while requests are awaited                                    *)
(***************************************************************************)
\* C23: whatever is awaited and whatever the connectivity, a checkout (of a
\* cart, which takes a catalog), an expense submission, an expense delete (of
\* an expense of the ledger) and a manual rate update can be made, and the
\* state in memory right after one of them shows it
C23_MutationsNeverBlocked ==
  /\ (checkouts < MaxCheckouts /\ products # <<>>) => ENABLED handleCheckout
  /\ expenseOps < MaxExpenseOps => ENABLED handleExpenseSubmit
  /\ (expenseOps < MaxExpenseOps /\ expenses # <<>>) => ENABLED handleDeleteExpense
  /\ ENABLED handleManualSubmit
  /\ last.op = "checkout"
       => /\ Len(salesHistory) = checkouts
          /\ Head(salesHistory).key = last.arg
  /\ (last.op = "expenseSubmit" /\ last.outcome = "ok")
       => /\ expenses # <<>>
          /\ Head(expenses).key = expenseOps
  /\ last.op = "deleteExpense"
       => \A i \in 1..Len(expenses) : expenses[i].key # last.arg
  /\ (last.op = "manualSubmit" /\ last.outcome = "ok")
       => exchangeRate = parseFloat(last.arg)

\* syncing, with the rate refresh, a sale insert and an expense insert
\* awaited, the rate has just been set by hand
C23_Witness ==
  /\ isOnline
  /\ isSyncing
  /\ fetchReqs # NoFetch
  /\ rateReqs > 0
  /\ saleReqs # {}
  /\ expenseReqs # {}
  /\ deleteReqs # {}
  /\ last.op = "manualSubmit"
  /\ last.outcome = "ok"
  /\ exchangeRate = Num(50)

(***************************************************************************)
(* Page load without the credentials of the remote store                   *)
(***************************************************************************)
\* C30: the first render and its effects hand to setState the ledgers held in
\* memory before the page load and do not replace a stored ledger that has
\* entries by an empty one; the re-render puts the ledgers handed over in
\* memory
C30_ReloadRestoresLedgers ==
  [][~isOnline =>
       /\ last'.op = "pageLoad"
            => /\ pendingLoad'.sales = Map(JsonSale, salesHistory)
               /\ pendingLoad'.expenses = expenses
               /\ storedSales.val # <<>> => storedSales'.val # <<>>
               /\ storedExpenses.val # <<>> => storedExpenses'.val # <<>>
       /\ last'.op = "render"
            => /\ salesHistory' = pendingLoad.sales
               /\ expenses' = pendingLoad.expenses]_vars

====
